---- MODULE Spec2Model ----
(***************************************************************************)
(* A model of scripts/normalize_articles.py: the pipeline that selects     *)
(* the articles without a "normalized" revision, sends each one's text to  *)
(* an OpenAI-compatible service under a semaphore, and pushes the result   *)
(* as a revision onto the article.                                         *)
(*                                                                         *)
(* The storage is the MongoDB collection: one document per identifier,     *)
(* with its `text` field and its `revisions` array.  A run is one call of  *)
(* main(): its arguments, its cursor, its batch, its tasks, its semaphore  *)
(* and its counter.  Several runs (processes) may exist.                   *)
(***************************************************************************)
EXTENDS Integers, Sequences, FiniteSets, TLC

\* ------------------------------------------------------------- bounds
NumRecords == 3     \* documents of the collection (their _id: 1..NumRecords)
MaxBatch == 2       \* --batch-size ranges over 0..MaxBatch
MaxConc == 2        \* --concurrency ranges over 1..MaxConc
MaxLimit == 2       \* --limit ranges over None, 0..MaxLimit
MaxText == 2        \* length of the texts normalize_quote_characters is tried on
MaxLines == 3       \* lines of the input file of normalize_jsonl
MaxEntries == 2     \* --max-entries ranges over None, 0..MaxEntries

Ids == 1..NumRecords
Runs == {1, 2}

\* Python's Optional[T]: None is the empty set, a value v is {v}.
None == {}
Some(v) == {v}

\* ------------------------------------------------------------- text
\* A text is a sequence of characters.  The characters the code tells
\* apart: the ASCII space, a Unicode space that is no ASCII space (U+00A0),
\* letters and digits, the quote glyphs of normalize_quote_characters'
\* table and the two ASCII quotes.
DoubleGlyphs == {"ldquo", "rdquo", "bdquo", "hrdquo", "laquo", "raquo", "fwquot"}
SingleGlyphs == {"lsquo", "rsquo", "sbquo", "hrsquo", "lsaquo", "rsaquo", "fwapos"}

\* str.strip() with no argument removes the characters str.isspace() holds
\* of: the ASCII whitespace and the Unicode spaces (U+00A0 among them).
PyWhitespace == {"sp", "nbsp"}

\* MongoDB's $regex is PCRE with UTF-8 and without UCP: \s is the ASCII
\* whitespace only, and every character above U+007F matches \S.
PcreSpace == {"sp"}

\* The value of a document's `text` field: absent, a number, or a string.
Missing == [kind |-> "missing", chars |-> <<>>]
Number7 == [kind |-> "number", chars |-> <<"7">>]
String(cs) == [kind |-> "string", chars |-> cs]

\* str(doc.get('text', '')): the default is '', a number prints its digits.
str_text(text) == text.chars

RECURSIVE lstrip(_)
lstrip(cs) ==
    IF cs # <<>> /\ Head(cs) \in PyWhitespace THEN lstrip(Tail(cs)) ELSE cs

RECURSIVE rstrip(_)
rstrip(cs) ==
    IF cs # <<>> /\ cs[Len(cs)] \in PyWhitespace
    THEN rstrip(SubSeq(cs, 1, Len(cs) - 1))
    ELSE cs

\* str.strip()
strip(cs) == rstrip(lstrip(cs))

\* (mutant) the left double quote becomes the right one.
replacements_Chained(c) ==
    IF c = "ldquo" THEN "rdquo"
    ELSE IF c \in DoubleGlyphs THEN "dquote"
    ELSE IF c \in SingleGlyphs THEN "squote"
    ELSE c

\* normalize_quote_characters: every glyph of the table becomes its ASCII
\* quote; `if not text: return text` returns the empty text as it is.
replacements(c) ==
    IF c \in DoubleGlyphs THEN "dquote"
    ELSE IF c \in SingleGlyphs THEN "squote"
    ELSE c

normalize_quote_characters(text) ==
    IF text = <<>> THEN text ELSE [i \in DOMAIN text |-> replacements(text[i])]

\* build_revision: the revision pushed for a normalized text (the
\* timestamp normalized_at is left out: nothing reads it).
build_revision(normalized_text) ==
    [revision_type |-> "normalized", source_fields |-> <<"text">>,
     text |-> normalized_text]

\* A revision of another kind, as another tool may have stored.
OtherRevision ==
    [revision_type |-> "imported", source_fields |-> <<"text">>, text |-> <<"a">>]

\* ------------------------------------------------------------- arguments
\* --resume-from is a string.  ObjectId(s) accepts the well-formed
\* identifiers (here: one digit) and raises InvalidId on any other string.
Digits == <<"0", "1", "2", "3", "4", "5", "6", "7", "8", "9">>

OidString(k) == <<Digits[k + 1]>>

\* (mutant) a string that is no identifier is taken for the identifier 1.
ObjectId_Lenient(s) ==
    IF Len(s) = 1 /\ \E k \in 0..9 : Digits[k + 1] = s[1]
    THEN Some(CHOOSE k \in 0..9 : Digits[k + 1] = s[1])
    ELSE Some(1)

\* ObjectId(resume_from): the identifier, or None when it raises.
ObjectId(s) ==
    IF Len(s) = 1 /\ \E k \in 0..9 : Digits[k + 1] = s[1]
    THEN Some(CHOOSE k \in 0..9 : Digits[k + 1] = s[1])
    ELSE None

ResumeStrings == {<<>>, <<"z">>} \cup {OidString(k) : k \in 1..(NumRecords - 1)}

\* parse_args: the arguments of one run.  Every limit, batch size,
\* concurrency and dry-run flag without --resume-from, and every
\* --resume-from string without --limit and with the widest semaphore.
Args ==
    [limit : {None} \cup {Some(l) : l \in 0..MaxLimit},
     resume_from : {None},
     batch_size : 0..MaxBatch,
     concurrency : 1..MaxConc,
     dry_run : BOOLEAN]
    \cup
    [limit : {None},
     resume_from : {Some(s) : s \in ResumeStrings},
     batch_size : 0..MaxBatch,
     concurrency : {MaxConc},
     dry_run : BOOLEAN]

NoArgs ==
    [limit |-> None, resume_from |-> None, batch_size |-> 0, concurrency |-> 1,
     dry_run |-> FALSE]

\* ------------------------------------------------------------- state
VARIABLES
    text,        \* storage: the `text` field of each document
    revisions,   \* storage: the `revisions` array of each document
    args,        \* per run: its arguments
    pc,          \* per run: where run_async_processing stands
    cursor,      \* per run: the cursor of collection.find(query).sort('_id', 1)
    batch,       \* per run: the documents of the group being filled or processed
    tasks,       \* per run: the tasks of process_documents_batch, one per document
    processed,   \* per run: the counter `processed`
    semaphore,   \* per run: the value of asyncio.Semaphore(concurrency)
    drawn,       \* per run: the identifiers the cursor yielded, in order (history)
    called,      \* per run: how many requests were sent for each document (history)
    pushed,      \* per run: how many revisions it pushed onto each document (history)
    lastOk,      \* per run: the document of its last True result (history)
    results,     \* per run: the result of each document's task (history)
    initial,     \* the storage before the first run (history)
    api_key,     \* per run: os.environ.get('OPENAI_API_KEY') after load_env_file
    printed,     \* per run: the lines it printed, but for the two kinds below
    groups,      \* per run: the sizes of its "Processing batch of ..." lines, in order
    progress,    \* per run: the totals of its "Processed ... documents..." lines, in order
    quoting,     \* a text and what normalize_quote_characters makes of it, again and again
    jsonl_args,  \* normalize_jsonl: max_entries, force_reprocess and append of process_jsonl
    jsonl_pc,    \* normalize_jsonl: where process_jsonl stands
    infile,      \* normalize_jsonl: the lines of the input file
    line_num,    \* normalize_jsonl: the number of the last line read
    outfile,     \* normalize_jsonl: the lines of the output file
    failfile,    \* normalize_jsonl: the lines of the failed file
    normalizer,  \* normalize_jsonl: the counters of the JSONLNormalizer
    api_calls,   \* normalize_jsonl: the lines whose entry was sent to the API (history)
    steps,       \* normalize_jsonl: what each iteration of the loop wrote (history)
    previous     \* normalize_jsonl: the files of the call before this one (history)

vars ==
    <<text, revisions, args, pc, cursor, batch, tasks, processed, semaphore,
      drawn, called, pushed, lastOk, results, initial, api_key, printed, groups,
      progress, quoting, jsonl_args, jsonl_pc, infile, line_num, outfile, failfile,
      normalizer, api_calls, steps, previous>>

history == <<results, initial, quoting>>

jsonl ==
    <<jsonl_args, jsonl_pc, infile, line_num, outfile, failfile, normalizer, api_calls,
      steps, previous>>

output == <<printed, groups, progress>>

\* ------------------------------------------------------------- the query
\* (mutant) a revision of any kind counts as a normalized one.
HasNormalized_AnyKind(revs) == revs # <<>>

\* (mutant) only the first revision is looked at.
HasNormalized_FirstOnly(revs) ==
    revs # <<>> /\ revs[1].revision_type = "normalized"

HasNormalized(revs) ==
    \E i \in DOMAIN revs : revs[i].revision_type = "normalized"

\* 'text': {'$type': 'string', '$regex': r'\S'}
TextMatches(t) ==
    t.kind = "string" /\ \E i \in DOMAIN t.chars : t.chars[i] \notin PcreSpace

\* The bound of query['_id'] = {'$gt': ObjectId(resume_from)}: set only when
\* resume_from is truthy (not None, not '') and ObjectId does not raise.
QueryBound(resume_from) ==
    IF resume_from = None THEN None
    ELSE LET s == CHOOSE x \in resume_from : TRUE
         IN  IF s = <<>> THEN None ELSE ObjectId(s)

\* (mutant) the bound is inclusive: $gte for $gt.
MatchesQuery_Gte(id, a) ==
    /\ TextMatches(text[id])
    /\ ~HasNormalized(revisions[id])
    /\ \A b \in QueryBound(a.resume_from) : id >= b

\* Whether document id matches the query of a run with these arguments.
\* (A document without a `revisions` field and one with an empty array match
\* alike: the model holds both as the empty sequence.)
MatchesQuery(id, a) ==
    /\ TextMatches(text[id])
    /\ ~HasNormalized(revisions[id])
    /\ \A b \in QueryBound(a.resume_from) : id > b

\* The identifiers of a set, ascending: sort('_id', 1).
RECURSIVE Ascending(_)
Ascending(S) ==
    IF S = {} THEN <<>>
    ELSE LET m == CHOOSE x \in S : \A y \in S : x <= y
         IN  <<m>> \o Ascending(S \ {m})

\* (mutant) the cursor yields the matching documents, then yields them again.
find_Twice(a) ==
    Ascending({id \in Ids : MatchesQuery(id, a)})
        \o Ascending({id \in Ids : MatchesQuery(id, a)})

\* collection.find(query).sort('_id', 1): the matching documents in order.
find(a) == Ascending({id \in Ids : MatchesQuery(id, a)})

\* ------------------------------------------------------------- the service
\* What the service may answer to one request: a 200 whose JSON holds a
\* content string at choices[0].message.content, a 200 of another shape, a
\* non-200 status, or nothing within the timeout.
Contents == {<<>>, <<"sp", "ldquo", "b", "rsquo">>}

Responses ==
    {[status |-> 200, shape |-> "content", content |-> c] : c \in Contents}
    \cup {[status |-> 200, shape |-> "malformed", content |-> <<>>],
          [status |-> 500, shape |-> "error", content |-> <<>>],
          [status |-> 0, shape |-> "timeout", content |-> <<>>]}

NoResponse == [status |-> 0, shape |-> "none", content |-> <<>>]

\* (mutant) the status and the shape of the answer are not looked at.
normalize_text_via_openai_compatible_NoStatusCheck(resp) ==
    IF resp.shape = "timeout" THEN [ok |-> FALSE, text |-> <<>>]
    ELSE [ok |-> TRUE, text |-> strip(resp.content)]

\* normalize_text_via_openai_compatible: the normalized text, or the
\* RuntimeError every other outcome is turned into.
normalize_text_via_openai_compatible(resp) ==
    IF resp.shape = "timeout" THEN [ok |-> FALSE, text |-> <<>>]
    ELSE IF resp.status # 200 THEN [ok |-> FALSE, text |-> <<>>]
    ELSE IF resp.shape # "content" THEN [ok |-> FALSE, text |-> <<>>]
    ELSE [ok |-> TRUE, text |-> strip(resp.content)]

\* ------------------------------------------------------------- tasks
\* A task of process_documents_batch: waiting for the semaphore, calling
\* the service (holding the semaphore), or settled with its result: "True",
\* "False", or "raised" (an exception gather() collected).
NewTask == [st |-> "waiting", resp |-> NoResponse, result |-> "none"]

\* (mutant) gather returns once every task has started.
Settled_Started(t) == t.st # "waiting"

\* (mutant) gather waits for the tasks to return True.
Settled_True(t) == t.st = "settled" /\ t.result = "True"

Settled(t) == t.st = "settled"

\* ------------------------------------------------------------- Init
\* The documents the collection may hold before the first run: an article
\* with text and no revision yet, an article already normalized, or a
\* document of another kind (its text absent, a number, empty, blank, or
\* with a revision of another kind).
Plain == [text |-> String(<<"a">>), revisions |-> <<>>]

AlreadyNormalized ==
    [text |-> String(<<"a">>), revisions |-> <<build_revision(<<"a">>)>>]

Documents ==
    {[text |-> t, revisions |-> <<>>] :
        t \in {Missing, Number7, String(<<>>), String(<<"sp">>), String(<<"nbsp">>),
               String(<<"sp", "a">>)}}
    \cup {[text |-> String(<<"a">>), revisions |-> <<OtherRevision>>]}

\* A collection: plain articles, of which any set is already normalized, or
\* of which one is a document of another kind.
Collections ==
    {[id \in Ids |-> IF id \in S THEN AlreadyNormalized ELSE Plain] : S \in SUBSET Ids}
    \cup {[id \in Ids |-> IF id = k THEN d ELSE Plain] : d \in Documents, k \in Ids}

\* JSONLNormalizer.__init__: the four counters.
NewNormalizer ==
    [processed_count |-> 0, skipped_count |-> 0, failed_count |-> 0,
     already_normalized_count |-> 0]

NoJsonlArgs == [max_entries |-> None, force_reprocess |-> FALSE, append |-> FALSE]

\* normalize_jsonl is not run.
NoJsonl ==
    /\ jsonl_args = NoJsonlArgs
    /\ jsonl_pc = "idle"
    /\ infile = <<>>
    /\ line_num = 0
    /\ outfile = <<>>
    /\ failfile = <<>>
    /\ normalizer = NewNormalizer
    /\ api_calls = <<>>
    /\ steps = <<>>
    /\ previous = None

InitRuns ==
    /\ args = [r \in Runs |-> NoArgs]
    /\ pc = [r \in Runs |-> "idle"]
    /\ cursor = [r \in Runs |-> [opened |-> FALSE, buf |-> <<>>]]
    /\ batch = [r \in Runs |-> <<>>]
    /\ tasks = [r \in Runs |-> <<>>]
    /\ processed = [r \in Runs |-> 0]
    /\ semaphore = [r \in Runs |-> 0]
    /\ drawn = [r \in Runs |-> <<>>]
    /\ called = [r \in Runs |-> [id \in Ids |-> 0]]
    /\ pushed = [r \in Runs |-> [id \in Ids |-> 0]]
    /\ lastOk = [r \in Runs |-> None]
    /\ results = [r \in Runs |-> [id \in Ids |-> "none"]]
    /\ api_key = [r \in Runs |-> None]
    /\ printed = [r \in Runs |-> {}]
    /\ groups = [r \in Runs |-> <<>>]
    /\ progress = [r \in Runs |-> <<>>]

Init ==
    /\ \E docs \in Collections :
          /\ text = [id \in Ids |-> docs[id].text]
          /\ revisions = [id \in Ids |-> docs[id].revisions]
          /\ initial = docs
    /\ InitRuns
    /\ quoting = <<>>
    /\ NoJsonl

\* ------------------------------------------------------------- output
\* A printed line: its kind and the identifier or the number it carries.
\*   api_key_required    'Error: OPENAI_API_KEY is required in environment.'
\*   invalid_resume_from 'Warning: invalid --resume-from ObjectId: ... Ignoring.'
\*   processing          'Processing {count_documents(query)} documents'
\*   failed              '_id=... normalization failed: ...'
\*   would_append        'DRY-RUN _id=... would append a normalized revision'
\*   updating            'Updating _id=... with normalized text'
\*   done                'Done. Total processed: {processed}'
Line(kind, n) == [kind |-> kind, n |-> n]

\* print(...) of run r.
print(r, line) == printed' = [printed EXCEPT ![r] = @ \cup {line}]

\* os.environ.get('OPENAI_API_KEY'): None, the empty string or a key.
ApiKeys == {None, Some(<<>>), Some(<<"k">>)}

\* `if not api_key`
NoApiKey(key) == key = None \/ key = Some(<<>>)

\* `if resume_from: try: ObjectId(resume_from) except Exception: print(Warning)`
InvalidResumeFrom(resume_from) ==
    \E s \in resume_from : s # <<>> /\ ObjectId(s) = None

\* sys.exit(1) after the error line; the return of main() otherwise.
exit_code(r) ==
    IF pc[r] = "exit1" THEN Some(1)
    ELSE IF pc[r] = "done" THEN Some(0)
    ELSE None

\* ------------------------------------------------------------- a run
\* (mutant) main goes on without the key.
main_NoKeyCheck(r, a, key) ==
    /\ pc[r] = "idle"
    /\ args' = [args EXCEPT ![r] = a]
    /\ api_key' = [api_key EXCEPT ![r] = key]
    /\ pc' = [pc EXCEPT ![r] = "loop"]
    /\ semaphore' = [semaphore EXCEPT ![r] = a.concurrency]
    /\ processed' = [processed EXCEPT ![r] = 0]
    /\ printed' = [printed EXCEPT ![r] =
          (IF InvalidResumeFrom(a.resume_from)
           THEN {Line("invalid_resume_from", 0)} ELSE {})
          \cup {Line("processing", Cardinality({id \in Ids : MatchesQuery(id, a)}))}]
    /\ UNCHANGED <<text, revisions, cursor, batch, tasks, drawn, called, pushed, lastOk,
                   history, groups, progress, jsonl>>

\* main / process_documents, up to the loop: the arguments are parsed and
\* the key is read; without a key the process exits with code 1.  With
\* one, the query is built (a --resume-from that ObjectId rejects is
\* warned about), its documents are counted and printed, the semaphore is
\* made and the counter is 0.  find() runs when the loop first asks the
\* cursor for a document.
main(r, a, key) ==
    /\ pc[r] = "idle"
    /\ args' = [args EXCEPT ![r] = a]
    /\ api_key' = [api_key EXCEPT ![r] = key]
    /\ IF NoApiKey(key)
       THEN /\ pc' = [pc EXCEPT ![r] = "exit1"]
            /\ print(r, Line("api_key_required", 0))
            /\ UNCHANGED <<semaphore, processed>>
       ELSE /\ pc' = [pc EXCEPT ![r] = "loop"]
            /\ semaphore' = [semaphore EXCEPT ![r] = a.concurrency]
            /\ processed' = [processed EXCEPT ![r] = 0]
            /\ printed' = [printed EXCEPT ![r] =
                  (IF InvalidResumeFrom(a.resume_from)
                   THEN {Line("invalid_resume_from", 0)} ELSE {})
                  \cup {Line("processing", Cardinality({id \in Ids : MatchesQuery(id, a)}))}]
    /\ UNCHANGED <<text, revisions, cursor, batch, tasks, drawn, called, pushed, lastOk,
                   history, groups, progress, jsonl>>

\* process_documents_batch(batch): one task per document of the batch.
StartBatch(r, docs, at) ==
    /\ batch' = [batch EXCEPT ![r] = docs]
    /\ tasks' = [tasks EXCEPT ![r] = [j \in DOMAIN docs |-> NewTask]]
    /\ groups' = [groups EXCEPT ![r] = Append(@, Len(docs))]
    /\ pc' = [pc EXCEPT ![r] = at]
    /\ UNCHANGED printed

\* The end of run_async_processing: cursor.close() and the final line.
Done(r, total) ==
    /\ pc' = [pc EXCEPT ![r] = "done"]
    /\ print(r, Line("done", total))

\* (mutant) the documents left in the batch after the loop are forgotten.
AfterLoop_DropRemaining(r) ==
    /\ Done(r, processed[r])
    /\ UNCHANGED <<batch, tasks, groups>>

\* After the loop: the remaining documents are processed, or the run ends
\* (cursor.close(), "Done. Total processed").
AfterLoop(r) ==
    IF batch[r] # <<>>
    THEN StartBatch(r, batch[r], "final")
    ELSE /\ Done(r, processed[r])
         /\ UNCHANGED <<batch, tasks, groups>>

\* One turn of `for doc in cursor`: the cursor is exhausted, or it yields
\* the next document; the limit is tested; the document joins the batch;
\* a full batch is handed to process_documents_batch.
loop_step(r) ==
    /\ pc[r] = "loop"
    /\ LET buf == IF cursor[r].opened THEN cursor[r].buf ELSE find(args[r])
       IN  IF buf = <<>>
           THEN /\ cursor' = [cursor EXCEPT ![r] = [opened |-> TRUE, buf |-> <<>>]]
                /\ AfterLoop(r)
                /\ UNCHANGED drawn
           ELSE /\ cursor' = [cursor EXCEPT ![r] = [opened |-> TRUE, buf |-> Tail(buf)]]
                /\ drawn' = [drawn EXCEPT ![r] = Append(@, Head(buf))]
                /\ IF \E l \in args[r].limit : processed[r] >= l
                   THEN AfterLoop(r)
                   ELSE LET b == Append(batch[r], Head(buf))
                        IN  IF Len(b) >= args[r].batch_size
                            THEN StartBatch(r, b, "gather")
                            ELSE /\ batch' = [batch EXCEPT ![r] = b]
                                 /\ UNCHANGED <<tasks, pc, groups, printed>>
    /\ UNCHANGED <<text, revisions, args, processed, semaphore, called, pushed, lastOk,
                   history, api_key, progress, jsonl>>

\* (mutant) the tasks start without waiting for the semaphore.
CanAcquire_NoGate(r, j) ==
    \A k \in 1..(j - 1) : tasks[r][k].st # "waiting"

\* `async with semaphore`: a task enters when the semaphore's value is
\* positive; asyncio wakes the waiting tasks in the order they came.
CanAcquire(r, j) ==
    /\ semaphore[r] > 0
    /\ \A k \in 1..(j - 1) : tasks[r][k].st # "waiting"

\* process_with_semaphore, up to the first suspension of
\* process_single_document: the semaphore is taken; a document whose
\* stripped text is empty returns False at once (and the semaphore is given
\* back); any other sends its request and waits for the answer.
process_with_semaphore(r, j) ==
    /\ pc[r] \in {"gather", "final"}
    /\ j \in DOMAIN tasks[r]
    /\ tasks[r][j].st = "waiting"
    /\ CanAcquire(r, j)
    /\ LET id == batch[r][j]
           t == strip(str_text(text[id]))
       IN  IF t = <<>>
           THEN /\ tasks' = [tasks EXCEPT ![r][j] =
                                [st |-> "settled", resp |-> NoResponse, result |-> "False"]]
                /\ results' = [results EXCEPT ![r][id] = "False"]
                /\ UNCHANGED <<semaphore, called>>
           ELSE /\ tasks' = [tasks EXCEPT ![r][j].st = "calling"]
                /\ semaphore' = [semaphore EXCEPT ![r] = @ - 1]
                /\ called' = [called EXCEPT ![r][id] = @ + 1]
                /\ UNCHANGED results
    /\ UNCHANGED <<text, revisions, args, pc, cursor, batch, processed, drawn, pushed, lastOk,
                   initial, quoting, api_key, output, jsonl>>

\* (mutant) the update sets the array: $set for $push.
update_one_Set(id, revision) ==
    revisions' = [revisions EXCEPT ![id] = <<revision>>]

\* collection.update_one({'_id': doc['_id']}, {'$push': {'revisions': revision}})
update_one(id, revision) ==
    revisions' = [revisions EXCEPT ![id] = Append(@, revision)]

\* (mutant) the update is made in a dry run too.
writes_Always(r) == TRUE

\* `if dry_run: print(...) else: collection.update_one(...)`
writes(r) == ~args[r].dry_run

\* (mutant) a failed task of the group makes the others fail.
task_result_SiblingFailed(r, j, ok, wr) ==
    IF ~ok \/ \E k \in DOMAIN tasks[r] : k # j /\ tasks[r][k].result = "False"
    THEN "False"
    ELSE IF ~args[r].dry_run /\ ~wr THEN "raised"
    ELSE "True"

\* What task j returns once its call is over: False when the call failed
\* (the except branch), True after the print or the update, and the
\* exception of update_one when it raised (wr = FALSE).
task_result(r, j, ok, wr) ==
    IF ~ok THEN "False"
    ELSE IF writes(r) /\ ~wr THEN "raised"
    ELSE "True"

\* The rest of process_single_document, from the service's answer on: a
\* failed call prints its line and returns False; a normalized text has
\* its quotes normalized and becomes a revision, which a dry run prints
\* and a live run announces and pushes; update_one may raise (wr = FALSE),
\* and gather() then collects the exception.  The semaphore is given back
\* in every case.
process_single_document(r, j, resp, wr) ==
    /\ pc[r] \in {"gather", "final"}
    /\ j \in DOMAIN tasks[r]
    /\ tasks[r][j].st = "calling"
    /\ LET id == batch[r][j]
           got == normalize_text_via_openai_compatible(resp)
           revision == build_revision(normalize_quote_characters(got.text))
           result == task_result(r, j, got.ok, wr)
       IN  /\ tasks' = [tasks EXCEPT ![r][j] =
                           [st |-> "settled", resp |-> resp, result |-> result]]
           /\ IF got.ok /\ writes(r) /\ wr
              THEN /\ update_one(id, revision)
                   /\ pushed' = [pushed EXCEPT ![r][id] = @ + 1]
              ELSE UNCHANGED <<revisions, pushed>>
           /\ print(r, IF ~got.ok THEN Line("failed", id)
                       ELSE IF writes(r) THEN Line("updating", id)
                       ELSE Line("would_append", id))
           /\ lastOk' = IF result = "True" THEN [lastOk EXCEPT ![r] = Some(id)] ELSE lastOk
           /\ results' = [results EXCEPT ![r][id] = result]
    /\ semaphore' = [semaphore EXCEPT ![r] = @ + 1]
    /\ UNCHANGED <<text, args, pc, cursor, batch, processed, drawn, called, initial,
                   quoting, api_key, groups, progress, jsonl>>

\* (mutant) every result that is not False is counted.
successful_NotFalse(r) ==
    Cardinality({j \in DOMAIN tasks[r] : tasks[r][j].result \in {"True", "raised"}})

\* sum(1 for result in results if result is True)
successful(r) ==
    Cardinality({j \in DOMAIN tasks[r] : tasks[r][j].result = "True"})

\* `if batch_size > 0 and processed % batch_size == 0: print(f"Processed ...")`
ProgressDue(batch_size, total) == batch_size > 0 /\ total % batch_size = 0

\* asyncio.gather returns once every task has settled; the counter grows by
\* the number of True results and the batch is emptied.  In the loop the
\* progress line is printed when it is due; after the last batch the run
\* ends.
gather_done(r) ==
    /\ pc[r] \in {"gather", "final"}
    /\ \A j \in DOMAIN tasks[r] : Settled(tasks[r][j])
    /\ LET total == processed[r] + successful(r)
       IN  /\ processed' = [processed EXCEPT ![r] = total]
           /\ IF pc[r] = "gather"
              THEN /\ pc' = [pc EXCEPT ![r] = "loop"]
                   /\ progress' = IF ProgressDue(args[r].batch_size, total)
                                  THEN [progress EXCEPT ![r] = Append(@, total)]
                                  ELSE progress
                   /\ UNCHANGED printed
              ELSE /\ Done(r, total)
                   /\ UNCHANGED progress
    /\ batch' = [batch EXCEPT ![r] = <<>>]
    /\ tasks' = [tasks EXCEPT ![r] = <<>>]
    /\ UNCHANGED <<text, revisions, args, cursor, semaphore, drawn, called, pushed, lastOk,
                   history, api_key, groups, jsonl>>

\* The process is stopped between two groups (the `finally` closes the
\* cursor; nothing else runs).
interrupt(r) ==
    /\ pc[r] = "loop"
    /\ batch[r] = <<>>
    /\ cursor[r].opened
    /\ pc' = [pc EXCEPT ![r] = "interrupted"]
    /\ UNCHANGED <<text, revisions, args, cursor, batch, tasks, processed, semaphore,
                   drawn, called, pushed, lastOk, history, api_key, output, jsonl>>

\* The steps of a started run.
RunStep(r) ==
    \/ loop_step(r)
    \/ \E j \in 1..(MaxBatch + 1) : process_with_semaphore(r, j)
    \/ \E j \in 1..(MaxBatch + 1), resp \in Responses, wr \in BOOLEAN :
          process_single_document(r, j, resp, wr)
    \/ gather_done(r)
    \/ interrupt(r)

\* ------------------------------------------------------------- one run
Next ==
    \/ \E a \in Args, key \in ApiKeys : main(1, a, key)
    \/ RunStep(1)

Spec == Init /\ [][Next]_vars

\* ------------------------------------------------------------- two runs, one after the other
\* The command is given again, with the same arguments, once the first
\* run has ended.
rerun ==
    /\ pc[1] = "done"
    /\ main(2, args[1], api_key[1])

\* The first run was stopped between two groups; the command is given
\* again with --resume-from set to the identifier of the last document the
\* first run reported as updated.
resume ==
    /\ pc[1] = "interrupted"
    /\ \E id \in lastOk[1] :
          main(2, [args[1] EXCEPT !.resume_from = Some(OidString(id))], api_key[1])

\* The first run of the two: live, without limit, with or without a
\* resume bound, with the widest semaphore.
SeqArgs ==
    {a \in Args : /\ a.limit = None
                  /\ ~a.dry_run
                  /\ a.batch_size > 0
                  /\ a.concurrency = MaxConc
                  /\ a.resume_from \in {None, Some(OidString(1))}}

NextSeq ==
    \/ \E a \in SeqArgs, key \in ApiKeys : main(1, a, key)
    \/ rerun
    \/ resume
    \/ \E r \in Runs : RunStep(r)

SpecSeq == Init /\ [][NextSeq]_vars

\* ------------------------------------------------------------- two runs at once
\* Two processes work on the same collection: both live, without limit and
\* without resume bound.
ConcArgs ==
    {a \in Args : a.limit = None /\ a.resume_from = None /\ ~a.dry_run /\ a.batch_size > 0}

\* The second process is started with the first one's command while the
\* first one runs or after it.
second ==
    /\ pc[1] # "idle"
    /\ main(2, args[1], api_key[1])

\* The collections of plain articles and articles already normalized.
InitConc ==
    /\ Init
    /\ \A id \in Ids : initial[id] \in {Plain, AlreadyNormalized}

NextConc ==
    \/ \E a \in ConcArgs, key \in ApiKeys : main(1, a, key)
    \/ second
    \/ \E r \in Runs : RunStep(r)

SpecConc == InitConc /\ [][NextConc]_vars

\* ------------------------------------------------------------- one run, to its end
\* A live run without resume bound, with or without limit, that nothing
\* stops from outside.
LiveArgs == {a \in Args : ~a.dry_run /\ a.resume_from = None}

Call(r) ==
    \E j \in 1..(MaxBatch + 1) : process_with_semaphore(r, j)

Answer(r) ==
    \E j \in 1..(MaxBatch + 1), resp \in Responses, wr \in BOOLEAN :
        process_single_document(r, j, resp, wr)

NextLive ==
    \/ \E a \in LiveArgs, key \in ApiKeys : main(1, a, key)
    \/ loop_step(1)
    \/ Call(1)
    \/ Answer(1)
    \/ gather_done(1)

\* asyncio runs every coroutine that can go on (the loop, a task at the
\* semaphore, gather once its tasks have settled), and every request is
\* answered or times out (ClientTimeout(total=timeout)).
Fairness ==
    /\ WF_vars(loop_step(1))
    /\ WF_vars(Call(1))
    /\ WF_vars(Answer(1))
    /\ WF_vars(gather_done(1))

SpecLive == Init /\ [][NextLive]_vars /\ Fairness

\* ------------------------------------------------------------- one run after the other, for ever
\* Live runs without limit and without resume bound, with a key and the
\* widest semaphore.
RepeatArgs ==
    {a \in Args : /\ ~a.dry_run /\ a.limit = None /\ a.resume_from = None
                  /\ a.batch_size > 0 /\ a.concurrency = MaxConc}

start == \E a \in RepeatArgs : main(1, a, Some(<<"k">>))

\* The command is given again once the run is over: a new process, whose
\* state is that of a run just started (the histories of the run before
\* are dropped).
restart ==
    /\ pc[1] = "done"
    /\ pc' = [pc EXCEPT ![1] = "loop"]
    /\ cursor' = [cursor EXCEPT ![1] = [opened |-> FALSE, buf |-> <<>>]]
    /\ processed' = [processed EXCEPT ![1] = 0]
    /\ semaphore' = [semaphore EXCEPT ![1] = args[1].concurrency]
    /\ drawn' = [drawn EXCEPT ![1] = <<>>]
    /\ called' = [called EXCEPT ![1] = [id \in Ids |-> 0]]
    /\ pushed' = [pushed EXCEPT ![1] = [id \in Ids |-> 0]]
    /\ lastOk' = [lastOk EXCEPT ![1] = None]
    /\ results' = [results EXCEPT ![1] = [id \in Ids |-> "none"]]
    /\ groups' = [groups EXCEPT ![1] = <<>>]
    /\ progress' = [progress EXCEPT ![1] = <<>>]
    /\ printed' = [printed EXCEPT ![1] =
          {Line("processing", Cardinality({id \in Ids : MatchesQuery(id, args[1])}))}]
    /\ UNCHANGED <<text, revisions, args, batch, tasks, initial, quoting, api_key, jsonl>>

\* The request for document id is answered with a content and the update
\* does not raise.
Success(id) ==
    \E j \in 1..(MaxBatch + 1), resp \in Responses :
        /\ j \in DOMAIN batch[1] /\ batch[1][j] = id
        /\ resp.status = 200 /\ resp.shape = "content"
        /\ process_single_document(1, j, resp, TRUE)

NextRepeat ==
    \/ start
    \/ restart
    \/ loop_step(1)
    \/ Call(1)
    \/ Answer(1)
    \/ gather_done(1)

\* The command is given, and given again after every run; asyncio runs
\* what can go on and every request settles; and the service and the
\* storage do not fail for ever on any one document: a document whose
\* request is sent again and again is answered and written at some time.
FairnessRepeat ==
    /\ WF_vars(start)
    /\ WF_vars(restart)
    /\ Fairness
    /\ \A id \in Ids : SF_vars(Success(id))

SpecRepeat == Init /\ [][NextRepeat]_vars /\ FairnessRepeat

\* ------------------------------------------------------------- the quote normalizer alone
\* The characters of the texts: the glyphs of the table, the two ASCII
\* quotes, a letter and a space.
Alphabet == DoubleGlyphs \cup SingleGlyphs \cup {"dquote", "squote", "a", "sp"}

Texts == UNION {[1..n -> Alphabet] : n \in 0..MaxText}

\* One text, and no run.
InitQuote ==
    /\ text = [id \in Ids |-> Plain.text]
    /\ revisions = [id \in Ids |-> Plain.revisions]
    /\ initial = [id \in Ids |-> Plain]
    /\ InitRuns
    /\ NoJsonl
    /\ \E t \in Texts : quoting = <<t>>

\* normalize_quote_characters is applied to the last text, twice at most.
apply_normalize_quote_characters ==
    /\ Len(quoting) \in 1..2
    /\ quoting' = Append(quoting, normalize_quote_characters(quoting[Len(quoting)]))
    /\ UNCHANGED <<text, revisions, args, pc, cursor, batch, tasks, processed, semaphore,
                   drawn, called, pushed, lastOk, results, initial, api_key, output, jsonl>>

SpecQuote == InitQuote /\ [][apply_normalize_quote_characters]_vars

\* ------------------------------------------------------------- normalize_jsonl
\* scripts/normalize_jsonl.py: JSONLNormalizer.process_jsonl reads the input
\* file line by line, sends the text of each entry to the API (a synchronous
\* call: one entry at a time) and writes the entry to the output file or to
\* the failed file.  The log lines are left out, but for the exception that
\* building one of them raises.

\* An entry: the JSON object of a line.  `title` is "string" (an absent
\* title reads as '') or "null" (a JSON null; a number behaves alike).
Entry(value, title, normalized, normalization_failed) ==
    [text |-> value, title |-> title, normalized |-> normalized,
     normalization_failed |-> normalization_failed,
     original_length |-> None, normalized_length |-> None]

\* A line of a file.  json: "object", "array" (JSON, but no object) or
\* "invalid" (no JSON).  form: "dumps" when the characters of the line are
\* what json.dumps(entry, ensure_ascii=False) writes, "other" when the same
\* object is written otherwise (other spacing, \u escapes).
NoEntry == Entry(Missing, "string", FALSE, FALSE)

json_dumps(entry) == [json |-> "object", form |-> "dumps", entry |-> entry]

Handwritten(entry) == [json |-> "object", form |-> "other", entry |-> entry]

ArrayLine == [json |-> "array", form |-> "other", entry |-> NoEntry]

InvalidLine == [json |-> "invalid", form |-> "other", entry |-> NoEntry]

\* json.loads of a line that holds JSON.
json_loads(line) == line.entry

NewEntry == Entry(String(<<"a">>), "string", FALSE, FALSE)

DoneEntry ==
    [Entry(String(<<"b", "c">>), "string", TRUE, FALSE)
        EXCEPT !.original_length = Some(1), !.normalized_length = Some(2)]

FailedEntry == Entry(String(<<"a">>), "string", FALSE, TRUE)

BlankEntry == Entry(String(<<"sp", "nbsp">>), "string", FALSE, FALSE)

CoreLines == {json_dumps(e) : e \in {NewEntry, DoneEntry, FailedEntry, BlankEntry}}

OddLines ==
    {json_dumps(Entry(Missing, "string", FALSE, FALSE)),
     json_dumps(Entry(Number7, "string", FALSE, FALSE)),
     json_dumps(Entry(String(<<>>), "string", FALSE, FALSE)),
     json_dumps(Entry(String(<<"sp">>), "string", TRUE, FALSE)),
     json_dumps(Entry(Missing, "string", FALSE, TRUE)),
     json_dumps(Entry(String(<<"a">>), "null", FALSE, FALSE)),
     json_dumps(Entry(String(<<"a">>), "null", TRUE, FALSE)),
     json_dumps(Entry(String(<<"a">>), "null", FALSE, TRUE)),
     Handwritten(DoneEntry),
     ArrayLine,
     InvalidLine}

\* The input files: every sequence of core lines, and the files of new
\* and normalized entries with one odd line among them.
JsonlFiles ==
    UNION {[1..n -> CoreLines] : n \in 0..MaxLines}
    \cup {[f EXCEPT ![i] = odd] :
              f \in UNION {[1..n -> {json_dumps(NewEntry), json_dumps(DoneEntry)}] :
                               n \in 1..MaxLines},
              i \in 1..MaxLines, odd \in OddLines}

\* What the output file and the failed file hold before the call.
OldOutput == <<json_dumps(DoneEntry)>>

OldFailed == <<json_dumps(FailedEntry)>>

JsonlArgs ==
    [max_entries : {None} \cup {Some(m) : m \in 0..MaxEntries},
     force_reprocess : BOOLEAN, append : BOOLEAN]

\* What client.chat.completions.create gives: a completion with a content,
\* or an exception.
Completions ==
    {[raised |-> FALSE, content |-> c] : c \in {<<"sp", "b", "c">>, <<"sp">>}}
    \cup {[raised |-> TRUE, content |-> <<>>]}

\* normalize_text: the stripped content, or None after an exception.
normalize_text(resp) == IF resp.raised THEN None ELSE Some(strip(resp.content))

\* `if normalized_text:` -- None and '' are false.
Truthy(normalized_text) == \E t \in normalized_text : t # <<>>

is_valid_entry(entry) ==
    entry.text.kind = "string" /\ strip(entry.text.chars) # <<>>

\* (mutant) only the `_normalized` flag is looked at.
is_already_normalized_OnlyNormalized(entry) == entry.normalized

is_already_normalized(entry) == entry.normalized \/ entry.normalization_failed

\* `title[:50]` raises TypeError when the title is no string.
Subscriptable(title) == title = "string"

\* `max_entries and (processed_count + already_normalized_count) >= max_entries`
LimitReached(norm, a) ==
    \E m \in a.max_entries :
        m # 0 /\ norm.processed_count + norm.already_normalized_count >= m

\* What one iteration of the loop does: the counters after it, the lines it
\* writes to the output file and to the failed file, the entries it sends
\* to the API, and whether it leaves the loop ("before" or "after" the
\* entry was handled).
Step(norm, out, fail, sent, break) ==
    [normalizer |-> norm, out |-> out, fail |-> fail, sent |-> sent, break |-> break]

Raised(norm) == Step([norm EXCEPT !.failed_count = @ + 1], <<>>, <<>>, <<>>, "no")

iteration(line, norm, a, resp) ==
    IF line.json = "invalid" THEN Raised(norm)
    ELSE IF line.json # "object" THEN Raised(norm)
    ELSE
    LET entry == json_loads(line) IN
    IF ~is_valid_entry(entry)
    THEN Step([norm EXCEPT !.skipped_count = @ + 1], <<>>, <<>>, <<>>, "no")
    ELSE IF ~a.force_reprocess /\ is_already_normalized(entry)
    THEN IF ~Subscriptable(entry.title) THEN Raised(norm)
         ELSE LET counted == [norm EXCEPT !.already_normalized_count = @ + 1]
              IN  Step(counted,
                       IF entry.normalized THEN <<json_dumps(entry)>> ELSE <<>>,
                       IF entry.normalized THEN <<>> ELSE <<json_dumps(entry)>>,
                       <<>>,
                       IF LimitReached(counted, a) THEN "after" ELSE "no")
    ELSE IF LimitReached(norm, a) THEN Step(norm, <<>>, <<>>, <<>>, "before")
    ELSE IF ~Subscriptable(entry.title) THEN Raised(norm)
    ELSE
    LET normalized_text == normalize_text(resp) IN
    IF Truthy(normalized_text)
    THEN LET t == CHOOSE t \in normalized_text : TRUE
         IN  Step([norm EXCEPT !.processed_count = @ + 1],
                  <<json_dumps([entry EXCEPT !.text = String(t),
                                             !.original_length = Some(Len(entry.text.chars)),
                                             !.normalized_length = Some(Len(t)),
                                             !.normalized = TRUE])>>,
                  <<>>, <<entry>>, "no")
    ELSE Step([norm EXCEPT !.failed_count = @ + 1],
              <<>>,
              <<json_dumps([entry EXCEPT !.normalization_failed = TRUE])>>,
              <<entry>>, "no")

articles ==
    <<text, revisions, args, pc, cursor, batch, tasks, processed, semaphore,
      drawn, called, pushed, lastOk, results, initial, api_key, output, quoting>>

\* process_jsonl is called: the files are opened, 'a' or 'w'.
process_jsonl(a) ==
    /\ jsonl_pc = "idle"
    /\ jsonl_args' = a
    /\ jsonl_pc' = "loop"
    /\ outfile' = IF a.append THEN outfile ELSE <<>>
    /\ failfile' = IF a.append THEN failfile ELSE <<>>
    /\ UNCHANGED <<infile, line_num, normalizer, api_calls, steps, previous, articles>>

\* One iteration of `for line_num, line in enumerate(infile, 1)`, or the
\* end of the file.
for_line(resp) ==
    /\ jsonl_pc = "loop"
    /\ IF line_num = Len(infile)
       THEN /\ jsonl_pc' = "done"
            /\ UNCHANGED <<line_num, outfile, failfile, normalizer, api_calls, steps>>
       ELSE LET n == line_num + 1
                step == iteration(infile[n], normalizer, jsonl_args, resp)
            IN  /\ line_num' = n
                /\ normalizer' = step.normalizer
                /\ outfile' = outfile \o step.out
                /\ failfile' = failfile \o step.fail
                /\ api_calls' = api_calls
                                   \o [i \in DOMAIN step.sent |->
                                          [line |-> n, entry |-> step.sent[i]]]
                /\ steps' = Append(steps, [out |-> step.out, fail |-> step.fail,
                                           break |-> step.break])
                /\ jsonl_pc' = IF step.break = "no" THEN "loop" ELSE "done"
    /\ UNCHANGED <<jsonl_args, infile, previous, articles>>

\* The output file of a call is the input file of the next call, a new
\* JSONLNormalizer with new output files, no limit and no force_reprocess.
feed_back ==
    /\ jsonl_pc = "done"
    /\ previous = None
    /\ previous' = Some([args |-> jsonl_args, outfile |-> outfile,
                          api_calls |-> api_calls])
    /\ infile' = outfile
    /\ jsonl_args' = NoJsonlArgs
    /\ jsonl_pc' = "loop"
    /\ line_num' = 0
    /\ outfile' = <<>>
    /\ failfile' = <<>>
    /\ normalizer' = NewNormalizer
    /\ api_calls' = <<>>
    /\ steps' = <<>>
    /\ UNCHANGED articles

InitJsonl ==
    /\ text = [id \in Ids |-> Plain.text]
    /\ revisions = [id \in Ids |-> Plain.revisions]
    /\ initial = [id \in Ids |-> Plain]
    /\ InitRuns
    /\ quoting = <<>>
    /\ jsonl_args = NoJsonlArgs
    /\ jsonl_pc = "idle"
    /\ infile \in JsonlFiles
    /\ line_num = 0
    /\ outfile = OldOutput
    /\ failfile = OldFailed
    /\ normalizer = NewNormalizer
    /\ api_calls = <<>>
    /\ steps = <<>>
    /\ previous = None

NextJsonl ==
    \/ \E a \in JsonlArgs : process_jsonl(a)
    \/ \E resp \in Completions : for_line(resp)
    \/ feed_back

SpecJsonl == InitJsonl /\ [][NextJsonl]_vars

\* ------------------------------------------------------------- properties
Range(seq) == {seq[i] : i \in DOMAIN seq}

NormalizedCount(revs) ==
    Cardinality({i \in DOMAIN revs : revs[i].revision_type = "normalized"})

\* A text with at least one character that is no whitespace.
HasContent(t) ==
    t.kind = "string" /\ \E i \in DOMAIN t.chars : t.chars[i] \notin {"sp", "nbsp"}

\* Eligible before the first run: text with content, no normalized revision.
EligibleBefore(id) ==
    HasContent(initial[id].text) /\ NormalizedCount(initial[id].revisions) = 0

Calling(r) == {j \in DOMAIN tasks[r] : tasks[r][j].st = "calling"}

TrueResults(r) == {id \in Ids : results[r][id] = "True"}

\* Every document the run called the service for has succeeded so far.
NoFailure(r) ==
    \A id \in Ids : called[r][id] > 0 => results[r][id] \in {"none", "True"}

\* What the cursor of run r selected: yielded already or still to come.
Selected(r) == Range(drawn[r]) \cup Range(cursor[r].buf)

\* C1: at every moment the calls in flight of a run are at most its
\* `concurrency`, and the one semaphore of the run accounts for all of them
\* (its value plus the calls in flight is `concurrency`, in every group).
ConcurrencyBound ==
    \A r \in Runs :
        /\ Cardinality(Calling(r)) <= args[r].concurrency
        /\ pc[r] \notin {"idle", "exit1"}
              => semaphore[r] + Cardinality(Calling(r)) = args[r].concurrency

\* A task waits at the gate while `concurrency` calls are in flight.
ConcurrencyBoundWitness ==
    \E r \in Runs :
        /\ Cardinality(Calling(r)) = args[r].concurrency
        /\ \E j \in DOMAIN tasks[r] : tasks[r][j].st = "waiting"

\* C2: after a first live run without limit and resume bound in which every
\* call and write succeeded, every document that was eligible has exactly
\* one normalized revision; the same command given again selects none of
\* them and pushes nothing.
Idempotence ==
    (pc[1] = "done" /\ args[1].resume_from = None /\ args[1].limit = None
        /\ ~args[1].dry_run /\ NoFailure(1))
    => /\ \A id \in Ids : EligibleBefore(id) => NormalizedCount(revisions[id]) = 1
       /\ pc[2] # "idle" =>
             /\ \A id \in Ids : pushed[2][id] = 0
             /\ cursor[2].opened =>
                   \A id \in Ids : EligibleBefore(id) => id \notin Selected(2)

\* Both runs are over; the first one normalized two documents.
IdempotenceWitness ==
    /\ pc[1] = "done" /\ pc[2] = "done"
    /\ args[1].resume_from = None /\ NoFailure(1)
    /\ Cardinality({id \in Ids : EligibleBefore(id)}) >= 2
    /\ processed[1] >= 2

\* C3: no document ever bears more than one normalized revision, also when
\* two runs work on the collection at once.
NoDuplicateRevision ==
    \A id \in Ids : NormalizedCount(revisions[id]) <= 1

\* C4: a run with limit L never processes more than L documents.
LimitRespected ==
    \A r \in Runs : \A l \in args[r].limit :
        /\ processed[r] <= l
        /\ Cardinality(TrueResults(r)) <= l

\* C5: a settled task whose own call was answered with a content and whose
\* update did not raise has returned True and (live) pushed its revision,
\* whatever happened to the other tasks of its group; and every True
\* result is counted.
FailureIsolation ==
    \A r \in Runs :
        /\ \A j \in DOMAIN tasks[r] :
              LET t == tasks[r][j]
                  id == batch[r][j]
              IN  (t.st = "settled" /\ t.resp.shape = "content" /\ t.result # "raised")
                  => /\ t.result = "True"
                     /\ ~args[r].dry_run =>
                           pushed[r][id] = 1 /\ NormalizedCount(revisions[id]) >= 1
        /\ processed[r] + Cardinality({j \in DOMAIN tasks[r] : tasks[r][j].result = "True"})
              = Cardinality(TrueResults(r))

\* In one group of a live run, a call has failed with a 500 and another
\* document has its revision.
FailureIsolationWitness ==
    \E r \in Runs : \E j, k \in DOMAIN tasks[r] :
        /\ ~args[r].dry_run
        /\ tasks[r][j].st = "settled" /\ tasks[r][j].resp.status = 500
        /\ tasks[r][k].st = "settled" /\ tasks[r][k].result = "True"
        /\ pushed[r][batch[r][k]] = 1

\* C6: a document whose call failed (non-200, malformed, timeout) gets no
\* revision in that run and is called once only; the same command given
\* again selects it again.
FailedStaysEligible ==
    /\ \A r \in Runs : \A j \in DOMAIN tasks[r] :
          LET t == tasks[r][j]
              id == batch[r][j]
          IN  (t.st = "settled" /\ t.resp.shape \in {"malformed", "error", "timeout"})
              => /\ t.result = "False"
                 /\ pushed[r][id] = 0
                 /\ NormalizedCount(revisions[id]) = 0
    /\ \A r \in Runs : \A id \in Ids : called[r][id] <= 1
    /\ \A id \in Ids :
          (results[1][id] = "False" /\ called[1][id] = 1
              /\ pc[2] # "idle" /\ args[2] = args[1] /\ cursor[2].opened)
          => id \in Selected(2)

\* The second run has drawn a document whose call failed in the first.
FailedStaysEligibleWitness ==
    \E id \in Ids :
        /\ results[1][id] = "False" /\ called[1][id] = 1
        /\ args[2] = args[1]
        /\ id \in Range(drawn[2])

\* C7: a dry run leaves every document's text and revisions as they were.
DryRunWritesNothing ==
    \A r \in Runs :
        (pc[r] # "idle" /\ args[r].dry_run)
        => \A id \in Ids :
              text[id] = initial[id].text /\ revisions[id] = initial[id].revisions

\* A dry run is over, with two documents printed and one call failed.
DryRunWitness ==
    /\ pc[1] = "done" /\ args[1].dry_run
    /\ processed[1] >= 2
    /\ \E id \in Ids : results[1][id] = "False" /\ called[1][id] = 1

\* C8: with --resume-from a well-formed identifier X, the cursor yields
\* only documents above X; in every run it yields them in strictly
\* ascending order.
ResumeMonotone ==
    \A r \in Runs :
        /\ \A k \in 0..9 :
              args[r].resume_from = Some(OidString(k))
              => \A i \in DOMAIN drawn[r] : drawn[r][i] > k
        /\ \A i, j \in DOMAIN drawn[r] : i < j => drawn[r][i] < drawn[r][j]

\* A run resumed from document 1 has drawn two documents.
ResumeMonotoneWitness ==
    /\ args[1].resume_from = Some(OidString(1))
    /\ Len(drawn[1]) >= 2

\* C9: a document whose text is absent, no string, empty or blank, and a
\* document that bore a normalized revision, is never drawn, never sent to
\* the service and never written to.
SelectionFilter ==
    \A r \in Runs : \A id \in Ids :
        (~HasContent(initial[id].text) \/ NormalizedCount(initial[id].revisions) > 0)
        => /\ id \notin Range(drawn[r])
           /\ called[r][id] = 0
           /\ pushed[r][id] = 0

\* The second run is the first one, stopped between two groups, resumed
\* from its last updated document; it is over and all its calls and writes
\* succeeded.
ResumedAndDone ==
    /\ pc[1] = "interrupted" /\ pc[2] = "done"
    /\ args[1].resume_from = None /\ args[1].limit = None /\ ~args[1].dry_run
    /\ \E id \in lastOk[1] : args[2].resume_from = Some(OidString(id))
    /\ NoFailure(2)

\* C10 (as claimed): after the interrupted and the resumed run every
\* document that was eligible has a normalized revision.
ResumeSkipsNothing ==
    ResumedAndDone
    => \A id \in Ids : EligibleBefore(id) => NormalizedCount(revisions[id]) >= 1

\* C10 (amended): ... every document that was eligible has a normalized
\* revision, but for the documents below the resume bound whose task failed
\* in the interrupted run.
ResumeSkipsOnlyFailed ==
    ResumedAndDone
    => \A id \in Ids :
          EligibleBefore(id)
          => \/ NormalizedCount(revisions[id]) = 1
             \/ /\ \E b \in lastOk[1] : id < b
                /\ results[1][id] \in {"False", "raised"}
                /\ called[1][id] = 1

\* The resumed run has normalized a document, and a document that failed
\* in the interrupted run is left without revision.
ResumeWitness ==
    /\ ResumedAndDone
    /\ processed[2] >= 1
    /\ \E id \in Ids : EligibleBefore(id) /\ NormalizedCount(revisions[id]) = 0

\* C11: no step of any run changes the set of identifiers or a document's
\* text; a step leaves a document's revisions as they are or appends one
\* revision of kind "normalized" to them (the old list is a prefix of the
\* new one, which is longer by one).
RevisionsAppendOnly ==
    [][/\ DOMAIN text' = DOMAIN text
       /\ DOMAIN revisions' = DOMAIN revisions
       /\ \A id \in Ids :
             /\ text'[id] = text[id]
             /\ \/ revisions'[id] = revisions[id]
                \/ /\ Len(revisions'[id]) = Len(revisions[id]) + 1
                   /\ SubSeq(revisions'[id], 1, Len(revisions[id])) = revisions[id]
                   /\ revisions'[id][Len(revisions'[id])].revision_type = "normalized"]_vars

\* Two live runs have written: the first onto a document that bore a
\* revision of another kind, which is still its first one, the second onto
\* another document.
RevisionsAppendOnlyWitness ==
    \E id, other \in Ids :
        /\ initial[id].revisions = <<OtherRevision>>
        /\ Len(revisions[id]) = 2 /\ revisions[id][1] = OtherRevision
        /\ pushed[1][id] = 1
        /\ other # id /\ pushed[2][other] = 1

\* The lines run r printed about document id's failure.
FailureLines(r, id) == {l \in printed[r] : l.kind = "failed" /\ l.n = id}

\* C12: when update_one raised for a document, the run has printed a
\* failure line for that document, and the document is not counted: the
\* counter and the True results of the group under way add up to the
\* documents whose task returned True.
WriteFailureReported ==
    \A r \in Runs :
        /\ \A id \in Ids : results[r][id] = "raised" => FailureLines(r, id) # {}
        /\ (\E id \in Ids : results[r][id] = "raised")
              => processed[r] + successful(r) = Cardinality(TrueResults(r))

\* C13: a task returns True only after an answer with status 200 and a
\* content that is present and not empty, and no revision of kind
\* "normalized" holds an empty text.
NoEmptyNormalizedText ==
    /\ \A r \in Runs : \A j \in DOMAIN tasks[r] :
          tasks[r][j].result = "True"
          => /\ tasks[r][j].resp.status = 200
             /\ tasks[r][j].resp.shape = "content"
             /\ tasks[r][j].resp.content # <<>>
    /\ \A id \in Ids : \A i \in DOMAIN revisions[id] :
          revisions[id][i].revision_type = "normalized" => revisions[id][i].text # <<>>

\* The documents eligible for run r when it started: eligible before the
\* first run and above the run's resume bound.
EligibleFor(r) ==
    {id \in Ids : /\ EligibleBefore(id)
                  /\ \A b \in QueryBound(args[r].resume_from) : id > b}

\* ceil(n / b)
CeilDiv(n, b) == (n + b - 1) \div b

\* C14: a run over N eligible documents with batch size B >= 1, without
\* limit, all of whose calls and writes succeeded, has drawn ceil(N / B)
\* groups, each of B documents but the last, which has the rest, and its
\* final total is N.
GroupSizes ==
    (pc[1] = "done" /\ args[1].batch_size >= 1 /\ args[1].limit = None /\ NoFailure(1))
    => LET N == Cardinality(EligibleFor(1))
           B == args[1].batch_size
           G == CeilDiv(N, B)
       IN  /\ Len(groups[1]) = G
           /\ \A i \in 1..(G - 1) : groups[1][i] = B
           /\ G > 0 => groups[1][G] = N - B * (G - 1)
           /\ processed[1] = N
           /\ Line("done", N) \in printed[1]

\* C15: a started run ends and prints its final total, with or without
\* limit and whatever calls fail; and it has ended only with its cursor
\* exhausted or its limit reached.
Termination ==
    /\ (pc[1] = "loop") ~> (pc[1] = "done" /\ Line("done", processed[1]) \in printed[1])
    /\ [](pc[1] = "done"
            => /\ cursor[1].opened
               /\ \/ cursor[1].buf = <<>>
                  \/ \E l \in args[1].limit : processed[1] >= l)

\* A run with a limit has ended on its limit (the last document the cursor
\* yielded was left aside), after a call that failed.
TerminationWitness ==
    /\ pc[1] = "done"
    /\ drawn[1] # <<>> /\ results[1][drawn[1][Len(drawn[1])]] = "none"
    /\ \E l \in args[1].limit : processed[1] >= l /\ l > 0
    /\ \E id \in Ids : results[1][id] = "False" /\ called[1][id] = 1

\* The --resume-from strings that are given and are no identifier.
MalformedStrings ==
    {s \in ResumeStrings : s # <<>> /\ \A k \in 0..9 : s # OidString(k)}

\* What a run without resume bound selects from the storage as it was
\* before the run, in order.
SelectedUnbounded ==
    Ascending({id \in Ids : /\ TextMatches(initial[id].text)
                            /\ ~HasNormalized(initial[id].revisions)})

\* C16: a run started (with a key) with a malformed --resume-from is not
\* aborted, has printed the warning, has counted the documents of the
\* query without bound, and its cursor yields just what a run without
\* resume bound selects, in the same order.
MalformedResumeIgnored ==
    (pc[1] # "idle" /\ ~NoApiKey(api_key[1])
        /\ \E s \in MalformedStrings : args[1].resume_from = Some(s))
    => /\ pc[1] \in {"loop", "gather", "final", "done", "interrupted"}
       /\ Line("invalid_resume_from", 0) \in printed[1]
       /\ Line("processing", Len(SelectedUnbounded)) \in printed[1]
       /\ cursor[1].opened => drawn[1] \o cursor[1].buf = SelectedUnbounded

\* A run with a malformed --resume-from is over and has normalized
\* document 1 and another one.
MalformedResumeWitness ==
    /\ pc[1] = "done"
    /\ \E s \in MalformedStrings : args[1].resume_from = Some(s)
    /\ Len(drawn[1]) >= 2
    /\ results[1][1] = "True" /\ processed[1] >= 2

\* C17: normalize_quote_characters applied to its own result gives that
\* result again, and its result holds no glyph of its table.
QuoteIdempotent ==
    /\ Len(quoting) >= 2
          => \A i \in DOMAIN quoting[2] : quoting[2][i] \notin DoubleGlyphs \cup SingleGlyphs
    /\ Len(quoting) >= 3 => quoting[3] = quoting[2]

\* Applied twice to a text with a double and a single glyph, which the
\* first application changed.
QuoteIdempotentWitness ==
    /\ Len(quoting) = 3
    /\ \E i, j \in DOMAIN quoting[1] :
          quoting[1][i] \in DoubleGlyphs /\ quoting[1][j] \in SingleGlyphs
    /\ quoting[2] # quoting[1]

\* C18: a run started without a key has exit code 1, and has printed its
\* error line only: no count of the query, no cursor, no document drawn,
\* no request, no write.  A run started with a key never has exit code 1,
\* and once over it has exit code 0 and has printed its final total,
\* whatever the results of its tasks.
MissingKeyExits ==
    \A r \in Runs :
        pc[r] # "idle"
        => /\ NoApiKey(api_key[r])
                 => /\ exit_code(r) = Some(1)
                    /\ printed[r] = {Line("api_key_required", 0)}
                    /\ ~cursor[r].opened /\ drawn[r] = <<>> /\ groups[r] = <<>>
                    /\ \A id \in Ids : called[r][id] = 0 /\ pushed[r][id] = 0
           /\ ~NoApiKey(api_key[r])
                 => /\ exit_code(r) # Some(1)
                    /\ Line("api_key_required", 0) \notin printed[r]
                    /\ pc[r] = "done"
                          => /\ exit_code(r) = Some(0)
                             /\ Line("done", processed[r]) \in printed[r]

\* main has exited with code 1: the key was not in the environment, and
\* the collection holds documents to normalize.
MissingKeyWitness ==
    /\ exit_code(1) = Some(1)
    /\ api_key[1] = None
    /\ \E id \in Ids : EligibleBefore(id) /\ revisions[id] = <<>>

\* C19: the step in which a group of a run has settled reports the new
\* total: as a progress line or, after the last group, as the final line.
TotalReportedAfterEveryGroup ==
    [][\A r \in Runs :
          (pc[r] \in {"gather", "final"} /\ pc'[r] \notin {"gather", "final"})
          => \/ progress'[r] = Append(progress[r], processed'[r])
             \/ /\ Line("done", processed'[r]) \notin printed[r]
                /\ Line("done", processed'[r]) \in printed'[r]]_vars

\* C20: when the command is given again and again and no document's call
\* or write fails for ever, then from some time on every document that
\* was eligible bears a normalized revision.
EventuallyAllNormalized ==
    <>[](\A id \in Ids : EligibleBefore(id) => NormalizedCount(revisions[id]) >= 1)

\* Three documents were eligible and all are normalized now; the run that
\* just ended had one document left to select, and normalized it.
EventuallyAllNormalizedWitness ==
    /\ \A id \in Ids : EligibleBefore(id) /\ NormalizedCount(revisions[id]) = 1
    /\ pc[1] = "done"
    /\ Line("processing", 1) \in printed[1]
    /\ processed[1] = 1

\* The documents the cursor of run r yielded whose task has not settled.
Unsettled(r) == {id \in Range(drawn[r]) : results[r][id] = "none"}

Max(a, b) == IF a >= b THEN a ELSE b

\* C21: at every moment the documents drawn and not settled are at most
\* max(batch_size, 1), and every task that exists belongs to the group under
\* way; and no step taken while a task of the group has not settled
\* advances the cursor or starts another group.
GroupsSequential ==
    /\ [](\A r \in Runs :
            /\ Cardinality(Unsettled(r)) <= Max(args[r].batch_size, 1)
            /\ tasks[r] # <<>>
                  => /\ pc[r] \in {"gather", "final"}
                     /\ DOMAIN tasks[r] = DOMAIN batch[r]
                     /\ Unsettled(r) \ Range(batch[r]) \subseteq
                           (IF pc[r] = "final" THEN {drawn[r][Len(drawn[r])]} ELSE {}))
    /\ [][\A r \in Runs :
            (\E j \in DOMAIN tasks[r] : tasks[r][j].st # "settled")
            => /\ drawn'[r] = drawn[r]
               /\ cursor'[r] = cursor[r]
               /\ groups'[r] = groups[r]
               /\ batch'[r] = batch[r]]_vars

\* The second group of a run is under way, with a call in flight and as
\* many documents not settled as the bound allows, after a failure in
\* the first group.
GroupsSequentialWitness ==
    /\ Len(groups[1]) >= 2
    /\ Calling(1) # {}
    /\ Cardinality(Unsettled(1)) = Max(args[1].batch_size, 1)
    /\ \E id \in Ids : results[1][id] = "False" /\ called[1][id] = 1

NoRepeat(seq) == \A i, j \in DOMAIN seq : i # j => seq[i] # seq[j]

\* The documents of run r whose request was sent and is not answered yet.
InFlight(r) == {id \in Ids : called[r][id] > 0 /\ results[r][id] = "none"}

\* C22: in a run no document has more than one request, before or after
\* a failure; a request is sent only for a document the cursor yielded;
\* the cursor yields no document twice and no document is twice in a
\* group; and the requests in flight are one for each task waiting for
\* its answer, each for its own document.
SentAtMostOnce ==
    \A r \in Runs :
        /\ \A id \in Ids : called[r][id] <= 1
        /\ \A id \in Ids : called[r][id] = 1 => id \in Range(drawn[r])
        /\ NoRepeat(drawn[r])
        /\ NoRepeat(batch[r])
        /\ pc[r] \in {"gather", "final"}
              => /\ InFlight(r) = {batch[r][j] : j \in Calling(r)}
                 /\ Cardinality(InFlight(r)) = Cardinality(Calling(r))

\* A run of two groups or more is over; every document had one request,
\* and one of the requests failed.
SentAtMostOnceWitness ==
    /\ pc[1] = "done"
    /\ Len(groups[1]) >= 2
    /\ \A id \in Ids : called[1][id] = 1
    /\ \E id \in Ids : results[1][id] = "False"

\* The documents that bear one revision more than before the run.
Appended == {id \in Ids : Len(revisions[id]) = Len(initial[id].revisions) + 1}

\* C23: in a live run the counter, with the True results of the group
\* under way, is the number of revisions the storage gained, and the final
\* line reports that number; a document gained a revision (one, of kind
\* "normalized") if and only if its task returned True, which it did if
\* and only if its call was answered with a content and its update did
\* not raise; every other document is as it was.
TotalEqualsAppended ==
    (pc[1] # "idle" /\ ~args[1].dry_run)
    => /\ processed[1] + successful(1) = Cardinality(Appended)
       /\ pc[1] = "done"
             => /\ processed[1] = Cardinality(Appended)
                /\ Line("done", Cardinality(Appended)) \in printed[1]
       /\ \A id \in Ids :
             /\ id \in Appended <=> results[1][id] = "True"
             /\ id \in Appended
                   => revisions[id][Len(revisions[id])].revision_type = "normalized"
             /\ id \notin Appended => revisions[id] = initial[id].revisions
       /\ \A j \in DOMAIN tasks[1] :
             tasks[1][j].st = "settled"
             => (tasks[1][j].result = "True"
                   <=> /\ tasks[1][j].resp.status = 200
                       /\ tasks[1][j].resp.shape = "content"
                       /\ pushed[1][batch[1][j]] = 1)

\* A live run is over: one call failed, one update raised, one document
\* was written, and the total is 1.
TotalEqualsAppendedWitness ==
    /\ pc[1] = "done" /\ ~args[1].dry_run
    /\ processed[1] = 1 /\ Cardinality(Appended) = 1
    /\ \E a, b \in Ids :
          /\ results[1][a] = "False" /\ called[1][a] = 1
          /\ results[1][b] = "raised"

\* ------------------------------------------------------------- normalize_jsonl: properties
\* The lines of the input file whose entry was sent to the API.
SentLines == {c.line : c \in Range(api_calls)}

\* The lines whose entry was written to a file without being sent.
PassedThrough ==
    {i \in DOMAIN steps : steps[i].out \o steps[i].fail # <<>>} \ SentLines

\* C24: with max_entries = M, M >= 1, a call of process_jsonl processes at
\* most M entries: the entries sent to the API and the entries passed
\* through as already processed are M at most, for every mix of new,
\* already processed and failing entries.
MaxEntriesRespected ==
    \A m \in jsonl_args.max_entries :
        m >= 1 => Cardinality(SentLines \cup PassedThrough) <= m

\* The lines the loop has read that hold an entry flagged `_normalized` or
\* `_normalization_failed`.
FlaggedLines ==
    {i \in DOMAIN steps :
        /\ infile[i].json = "object"
        /\ infile[i].entry.normalized \/ infile[i].entry.normalization_failed}

\* The entry of line i is written as it is, once, to the output file when
\* it is flagged `_normalized`, to the failed file otherwise.
WrittenUnchanged(i) ==
    LET entry == json_loads(infile[i])
        there == IF entry.normalized THEN steps[i].out ELSE steps[i].fail
        other == IF entry.normalized THEN steps[i].fail ELSE steps[i].out
    IN  /\ Len(there) = 1
        /\ there[1].json = "object" /\ json_loads(there[1]) = entry
        /\ other = <<>>

\* The lines the loop has read whose entry has a valid text: a string with
\* a character that is no whitespace.
ValidLines ==
    {i \in DOMAIN steps :
        /\ infile[i].json = "object"
        /\ infile[i].entry.text.kind = "string"
        /\ \E j \in DOMAIN infile[i].entry.text.chars :
              infile[i].entry.text.chars[j] \notin PyWhitespace}

StringTitle(i) == infile[i].entry.title = "string"

RECURSIVE Concat(_)
Concat(seqs) == IF seqs = <<>> THEN <<>> ELSE Head(seqs) \o Concat(Tail(seqs))

\* What the files hold of what they held before the call.
Kept(old) ==
    IF previous = None /\ (jsonl_pc = "idle" \/ jsonl_args.append) THEN old ELSE <<>>

\* C26: an entry whose text is missing, no string, empty or whitespace only
\* is never sent to the API and never written to the output file or the
\* failed file; every other entry handled before the limit is written to
\* exactly one of the two files, to the output file when its normalization
\* succeeded and to the failed file when it failed, never to both and never
\* twice.
EveryValidEntryWritten ==
    /\ outfile = Kept(OldOutput) \o Concat([i \in DOMAIN steps |-> steps[i].out])
    /\ failfile = Kept(OldFailed) \o Concat([i \in DOMAIN steps |-> steps[i].fail])
    /\ \A i \in DOMAIN steps :
          infile[i].json = "object"
          => IF i \in ValidLines
             THEN steps[i].break # "before"
                  => /\ Len(steps[i].out) + Len(steps[i].fail) = 1
                     /\ i \in SentLines
                           => /\ steps[i].out # <<>> => steps[i].out[1].entry.normalized
                              /\ steps[i].fail # <<>>
                                    => steps[i].fail[1].entry.normalization_failed
             ELSE /\ i \notin SentLines
                  /\ steps[i].out \o steps[i].fail = <<>>

====
